---- MODULE Spec2Model ----
(***************************************************************************)
(* Model of src/app.py: a Flask service whose routes run Trino queries      *)
(* behind a bounded semaphore (_gate) and a TTL cache (_cache).             *)
(*                                                                         *)
(* Each request is a thread of the WSGI server.  A step of the model is the *)
(* code a thread runs up to its next access to shared state (_gate, _cache) *)
(* or to its next blocking call (acquire, connect, execute, fetchall).      *)
(* Time passes only while every running thread sits in a blocking call:     *)
(* straight-line Python between two blocking calls takes no time at the     *)
(* granularity of the cache TTLs.                                           *)
(***************************************************************************)
EXTENDS Integers, Sequences, FiniteSets, TLC

\* ---------------------------------------------------------------- bounds
NumReq == 3          \* requests (threads) of one run
TickLen == 30        \* seconds the clock advances in one Tick
MaxTime == 60        \* the clock stops here
MaxTimeLong == 90    \* or here, in the runs that follow one entry to its end
MaxRows == 3         \* rows of the monthly query in the runs that shape them

\* ------------------------------------------------------ program constants
TRINO_MAX_CONCURRENCY == 2
DASHBOARD_CACHE_TTL == 60
SMALL_CACHE_TTL == 60
DefaultLimit == 20

Req == 1..NumReq

MetricRoutes ==
    {"kpis", "revenue_by_segment", "revenue_share_by_segment",
     "avg_order_value_by_segment", "orders_count_by_segment",
     "monthly_revenue_by_segment", "top_customers"}

Routes == MetricRoutes \cup {"health", "dashboard"}

\* route of a request of the run that is never sent
NotSent == "none"

\* values of the limit parameter of /api/top_customers: int() takes any
\* integer, the default applies when the parameter is absent
Limits == {-1, 0, DefaultLimit, 1000000}

\* the exceptions run_query tells apart, "other" being `except Exception`
ErrKinds == {"TrinoUserError", "TrinoExternalError", "HttpError", "other"}

\* the dashboard lambda evaluates these in this order
DashParts ==
    <<"kpis", "revenue_by_segment", "avg_order_value_by_segment",
      "orders_count_by_segment", "monthly_revenue_by_segment">>

VARIABLES
    clock,      \* time.time()
    _gate,      \* value of the BoundedSemaphore: free slots
    _cache,     \* dict: key -> [t, v]
    held,       \* request -> slots of _gate it has acquired and not released
    route,      \* request -> the route it asks for
    limit,      \* request -> its limit parameter (top_customers)
    pc,         \* request -> where its thread is
    dnow,       \* request -> `now` of the dashboard cache_ttl call
    mnow,       \* request -> `now` of the running metric cache_ttl call
    idx,        \* request -> dashboard part being computed (0: none)
    acc,        \* request -> dashboard parts computed so far
    err,        \* request -> exception in flight ("none": none)
    rows,       \* request -> result of fetchall: [at, n], or the rows themselves
    val,        \* request -> value _do returned
    resp,       \* request -> HTTP response ([status, body, data])
    calls,      \* request -> key -> times it invoked the supplier of key
    sent,       \* request -> query -> times it sent the query downstream
    before      \* dashboard request -> dashboard requests answered when it began

vars == <<clock, _gate, _cache, held, route, limit, pc, dnow, mnow, idx, acc, err,
          rows, val, resp, calls, sent, before>>

NoRows == [at |-> -1, n |-> 0]
NoResp == [status |-> 0, body |-> "", data |-> <<>>]

\* f"top_customers_{limit}"
TopKey(l) == "top_customers_" \o ToString(l)

\* the cache key of a metric route
MetricKey(rt, l) ==
    CASE rt = "kpis" -> "kpis"
      [] rt = "revenue_by_segment" -> "revenue_by_segment"
      [] rt = "revenue_share_by_segment" -> "revenue_by_segment"
      [] rt = "avg_order_value_by_segment" -> "avg_order_value_by_segment"
      [] rt = "orders_count_by_segment" -> "orders_count_by_segment"
      [] rt = "monthly_revenue_by_segment" -> "monthly_revenue_by_segment"
      [] rt = "top_customers" -> TopKey(l)

\* the query a request is running: the metric's, the dashboard part's, or
\* the probe of /api/health
Query(r) ==
    CASE route[r] = "health" -> "health"
      [] route[r] = "dashboard" -> DashParts[idx[r]]
      [] OTHER -> MetricKey(route[r], limit[r])

Keys ==
    {MetricKey(rt, l) : rt \in MetricRoutes, l \in Limits} \cup {"dashboard"}

Queries == Keys \cup {"health"}

Counters == [q \in Queries |-> 0]

\* ------------------------------------------------------------- cache_ttl
\* faulty variant: the comparison of the age with the ttl is turned around
FreshInverted(key, ttl, now) ==
    /\ key \in DOMAIN _cache
    /\ now - _cache[key].t > ttl

\* faulty variant: an entry whose age equals the ttl still counts as fresh
FreshInclusive(key, ttl, now) ==
    /\ key \in DOMAIN _cache
    /\ now - _cache[key].t <= ttl

\* entry and (now - entry["t"] < ttl)
Fresh(key, ttl, now) ==
    /\ key \in DOMAIN _cache
    /\ now - _cache[key].t < ttl

\* faulty variant: the computed value is returned without being stored
StoredNothing(key, now, v) == _cache

\* faulty variant: an existing entry is updated in place, value first, and a
\* reader can find the new value under the old time stamp
StoredTorn(key, now, v) ==
    [k \in DOMAIN _cache \cup {key} |->
        IF k = key
        THEN [t |-> IF key \in DOMAIN _cache THEN _cache[key].t ELSE now, v |-> v]
        ELSE _cache[k]]

\* faulty variant: the store rebuilds the cache with the one entry
StoredAlone(key, now, v) ==
    [k \in {key} |-> [t |-> now, v |-> v]]

\* _cache[key] = {"t": now, "v": v}
Stored(key, now, v) ==
    [k \in DOMAIN _cache \cup {key} |->
        IF k = key THEN [t |-> now, v |-> v] ELSE _cache[k]]

\* ------------------------------------------------------------- responses
Json(v) == [status |-> 200, body |-> "json", data |-> v]

\* the payload of the except branch of each route
NeutralBody(rt) ==
    CASE rt = "kpis" -> "{}"
      [] rt \in {"revenue_by_segment", "revenue_share_by_segment",
                 "avg_order_value_by_segment", "orders_count_by_segment"}
           -> "{\"labels\": [], \"values\": []}"
      [] rt = "monthly_revenue_by_segment" -> "{\"labels\": [], \"datasets\": []}"
      [] rt = "top_customers" -> "{\"rows\": []}"
      [] rt = "dashboard" -> "{\"error\": \"trino_busy\"}"
      [] rt = "health" -> "{\"ok\": false}"

\* faulty variant: the route has no except branch and Flask answers 500
FailureUncaught(rt) ==
    [status |-> IF rt = "health" THEN 503 ELSE 500,
     body |-> "Internal Server Error", data |-> <<>>]

\* faulty variant: only /api/health has an except branch of its own, every other
\* route shares the answer of /api/kpis
FailureShared(rt) ==
    [status |-> IF rt = "health" THEN 503 ELSE 200,
     body |-> IF rt = "health" THEN "{\"ok\": false}" ELSE "{}", data |-> <<>>]

\* faulty variant: the except branch of /api/health forgets the 503
FailureAlways200(rt) ==
    [status |-> 200, body |-> NeutralBody(rt), data |-> <<>>]

\* the except branch of each route
Failure(rt) ==
    [status |-> IF rt = "health" THEN 503 ELSE 200,
     body |-> NeutralBody(rt), data |-> <<>>]

HealthOk == [status |-> 200, body |-> "{\"ok\": true}", data |-> <<>>]

\* ----------------------------------------------------------------- Init
\* the process starts with all its slots free and an empty cache; a run is
\* the routes its requests ask for
StartWith(runs, slots) ==
    /\ clock = 0
    /\ _gate = slots
    /\ _cache = << >>
    /\ held = [r \in Req |-> 0]
    /\ route \in runs
    /\ limit \in [Req -> Limits]
    /\ \A r \in Req : route[r] # "top_customers" => limit[r] = DefaultLimit
    /\ pc = [r \in Req |-> "idle"]
    /\ dnow = [r \in Req |-> 0]
    /\ mnow = [r \in Req |-> 0]
    /\ idx = [r \in Req |-> 0]
    /\ acc = [r \in Req |-> <<>>]
    /\ err = [r \in Req |-> "none"]
    /\ rows = [r \in Req |-> NoRows]
    /\ val = [r \in Req |-> <<>>]
    /\ resp = [r \in Req |-> NoResp]
    /\ calls = [r \in Req |-> Counters]
    /\ sent = [r \in Req |-> Counters]
    /\ before = [r \in Req |-> {}]

\* the start with the capacity of the configuration
Start(runs) == StartWith(runs, TRINO_MAX_CONCURRENCY)

\* -------------------------------------------------------------- actions
\* faulty variant: run_query calls _gate.acquire() and never gives the slot back
GateExitKept(e) == _gate

\* faulty variant: the semaphore admits one caller too many
SlotFreeOffByOne == _gate >= 0

\* BoundedSemaphore.acquire() blocks while the value is 0
SlotFree == _gate > 0

\* faulty variant: the slot is returned after the last statement of the block, not
\* in __exit__, so an exception skips it
GateExitOnSuccess(e) == IF e = "none" THEN _gate + 1 ELSE _gate

\* BoundedSemaphore.release() in __exit__, whatever exception e is in flight
GateExit(e) == _gate + 1

\* faulty variant: run_query opens the connection without entering the gate
RunQueryDirect == "exec"

\* run_query starts by entering `with _gate`
RunQueryEntry == "gate"

\* compute_X() returned v to its caller: a metric route answers, the
\* dashboard lambda goes on to its next part or returns to cache_ttl
Returned(r, v) ==
    IF route[r] = "dashboard"
    THEN /\ acc' = [acc EXCEPT ![r] = Append(@, v[1])]
         /\ idx' = [idx EXCEPT ![r] = IF @ < Len(DashParts) THEN @ + 1 ELSE 0]
         /\ pc' = [pc EXCEPT ![r] =
                      IF idx[r] < Len(DashParts) THEN "call" ELSE "dstore"]
         /\ resp' = resp
    ELSE /\ resp' = [resp EXCEPT ![r] = Json(v)]
         /\ pc' = [pc EXCEPT ![r] = "done"]
         /\ UNCHANGED <<acc, idx>>

\* an exception reached the except branch of the route
Raised(r) ==
    /\ resp' = [resp EXCEPT ![r] = Failure(route[r])]
    /\ pc' = [pc EXCEPT ![r] = "done"]
    /\ idx' = [idx EXCEPT ![r] = 0]
    /\ acc' = [acc EXCEPT ![r] = <<>>]

\* the request arrives and its handler runs up to its first shared access
\* after this one: health calls run_query, a metric route calls compute_X,
\* dashboard calls cache_ttl("dashboard", ...)
Begin(r) ==
    /\ pc[r] = "idle"
    /\ route[r] # NotSent
    /\ before' = [before EXCEPT ![r] =
                      IF route[r] = "dashboard"
                      THEN {s \in Req : route[s] = "dashboard" /\ pc[s] = "done"}
                      ELSE {}]
    /\ CASE route[r] = "health" ->
              /\ pc' = [pc EXCEPT ![r] = RunQueryEntry]
              /\ UNCHANGED <<dnow, idx, resp, calls>>
         [] route[r] = "dashboard" ->
              /\ dnow' = [dnow EXCEPT ![r] = clock]
              /\ IF Fresh("dashboard", DASHBOARD_CACHE_TTL, clock)
                 THEN /\ resp' = [resp EXCEPT ![r] = Json(_cache["dashboard"].v)]
                      /\ pc' = [pc EXCEPT ![r] = "done"]
                      /\ UNCHANGED <<idx, calls>>
                 ELSE /\ calls' = [calls EXCEPT ![r]["dashboard"] = @ + 1]
                      /\ idx' = [idx EXCEPT ![r] = 1]
                      /\ pc' = [pc EXCEPT ![r] = "call"]
                      /\ resp' = resp
         [] OTHER ->
              /\ pc' = [pc EXCEPT ![r] = "call"]
              /\ UNCHANGED <<dnow, idx, resp, calls>>
    /\ UNCHANGED <<clock, _gate, _cache, held, route, limit, mnow, acc, err, rows,
                   val, sent>>

\* cache_ttl(key, SMALL_CACHE_TTL, _do) of a metric: lines 70-74
CacheTtl(r) ==
    /\ pc[r] = "call"
    /\ IF Fresh(Query(r), SMALL_CACHE_TTL, clock)
       THEN /\ Returned(r, _cache[Query(r)].v)
            /\ UNCHANGED <<mnow, calls>>
       ELSE /\ mnow' = [mnow EXCEPT ![r] = clock]
            /\ calls' = [calls EXCEPT ![r][Query(r)] = @ + 1]
            /\ pc' = [pc EXCEPT ![r] = RunQueryEntry]
            /\ UNCHANGED <<idx, acc, resp>>
    /\ UNCHANGED <<clock, _gate, _cache, held, route, limit, dnow, err, rows, val,
                   sent, before>>

\* with _gate: __enter__, then trino_conn() and conn.cursor(), which build
\* the connection object and either reach cur.execute or raise
Acquire(r) ==
    /\ pc[r] = "gate"
    /\ SlotFree
    /\ _gate' = _gate - 1
    /\ held' = [held EXCEPT ![r] = @ + 1]
    /\ \/ /\ pc' = [pc EXCEPT ![r] = "exec"]
          /\ err' = err
       \/ /\ pc' = [pc EXCEPT ![r] = "exit"]
          /\ err' = [err EXCEPT ![r] = "other"]
    /\ UNCHANGED <<clock, _cache, route, limit, dnow, mnow, idx, acc, rows, val,
                   resp, calls, sent, before>>

\* cur.execute(sql)
Execute(r) ==
    /\ pc[r] = "exec"
    /\ sent' = [sent EXCEPT ![r][Query(r)] = @ + 1]
    /\ \/ /\ pc' = [pc EXCEPT ![r] = "fetch"]
          /\ err' = err
       \/ \E e \in ErrKinds :
            /\ pc' = [pc EXCEPT ![r] = "exit"]
            /\ err' = [err EXCEPT ![r] = e]
    /\ UNCHANGED <<clock, _gate, _cache, held, route, limit, dnow, mnow, idx, acc,
                   rows, val, resp, calls, before>>

\* cur.fetchall(): the rows as they are downstream now, or an error
Fetch(r) ==
    /\ pc[r] = "fetch"
    /\ pc' = [pc EXCEPT ![r] = "exit"]
    /\ \/ \E n \in {0, 1} :
            /\ rows' = [rows EXCEPT ![r] = [at |-> clock, n |-> n]]
            /\ err' = err
       \/ \E e \in ErrKinds :
            /\ err' = [err EXCEPT ![r] = e]
            /\ rows' = rows
    /\ UNCHANGED <<clock, _gate, _cache, held, route, limit, dnow, mnow, idx, acc,
                   val, resp, calls, sent, before>>

\* faulty variant: _do of compute_kpis swallows the IndexError of an empty result
\* and goes on to return a payload, which cache_ttl stores
ShapesAnything(q, rw) == TRUE

\* _do can shape the rows: compute_kpis takes run_query(sql)[0]
Shapes(q, rw) == ~(q = "kpis" /\ rw.n = 0)

\* the value _do returns, as the time its rows were read downstream
Shaped(rw) == <<rw.at>>

\* with _gate: __exit__, then the code up to the next shared access: the
\* except clauses of run_query re-raise, cache_ttl stores nothing, the route
\* answers from its except branch; otherwise health answers and _do shapes
\* the rows of a metric
Release(r) ==
    /\ pc[r] = "exit"
    /\ _gate' = GateExit(err[r])
    /\ held' = [held EXCEPT ![r] = @ - 1]
    /\ err' = [err EXCEPT ![r] = "none"]
    /\ rows' = [rows EXCEPT ![r] = NoRows]
    /\ IF err[r] # "none" \/ (route[r] # "health" /\ ~Shapes(Query(r), rows[r]))
       THEN /\ Raised(r)
            /\ mnow' = [mnow EXCEPT ![r] = 0]
            /\ val' = val
       ELSE IF route[r] = "health"
       THEN /\ resp' = [resp EXCEPT ![r] = HealthOk]
            /\ pc' = [pc EXCEPT ![r] = "done"]
            /\ UNCHANGED <<mnow, val, idx, acc>>
       ELSE /\ val' = [val EXCEPT ![r] = Shaped(rows[r])]
            /\ pc' = [pc EXCEPT ![r] = "store"]
            /\ UNCHANGED <<mnow, resp, idx, acc>>
    /\ UNCHANGED <<clock, _cache, route, limit, dnow, calls, sent, before>>

\* cache_ttl of a metric: lines 75-76
Store(r) ==
    /\ pc[r] = "store"
    /\ _cache' = Stored(Query(r), mnow[r], val[r])
    /\ val' = [val EXCEPT ![r] = <<>>]
    /\ mnow' = [mnow EXCEPT ![r] = 0]
    /\ Returned(r, val[r])
    /\ UNCHANGED <<clock, _gate, held, route, limit, dnow, err, rows, calls, sent,
                   before>>

\* cache_ttl("dashboard", ...): lines 75-76, then jsonify(data)
DStore(r) ==
    /\ pc[r] = "dstore"
    /\ _cache' = Stored("dashboard", dnow[r], acc[r])
    /\ resp' = [resp EXCEPT ![r] = Json(acc[r])]
    /\ acc' = [acc EXCEPT ![r] = <<>>]
    /\ pc' = [pc EXCEPT ![r] = "done"]
    /\ UNCHANGED <<clock, _gate, held, route, limit, dnow, mnow, idx, err, rows,
                   val, calls, sent, before>>

\* places where a thread is in straight-line code, not in a blocking call
Running == {"call", "exit", "store", "dstore"}

\* time.time() advances, up to the horizon of the run
TickTo(horizon) ==
    /\ clock + TickLen <= horizon
    /\ \A r \in Req : pc[r] \notin Running
    /\ clock' = clock + TickLen
    /\ UNCHANGED <<_gate, _cache, held, route, limit, pc, dnow, mnow, idx, acc,
                   err, rows, val, resp, calls, sent, before>>

Tick == TickTo(MaxTime)

TickLong == TickTo(MaxTimeLong)

Step ==
    \/ \E r \in Req : Begin(r)
    \/ \E r \in Req : CacheTtl(r)
    \/ \E r \in Req : Acquire(r)
    \/ \E r \in Req : Execute(r)
    \/ \E r \in Req : Fetch(r)
    \/ \E r \in Req : Release(r)
    \/ \E r \in Req : Store(r)
    \/ \E r \in Req : DStore(r)

Next == Step \/ Tick

NextLong == Step \/ TickLong

\* one request on any route, under load from a metric and health probes
GateRuns ==
    {f \in [Req -> Routes] :
        /\ \A r \in Req : r > 1 => f[r] = "health"}

\* two requests, at least one for the dashboard
DashRuns ==
    {f \in [Req -> Routes \cup {NotSent}] :
        /\ f[1] = "dashboard"
        /\ f[2] \in {"dashboard", "kpis", "revenue_share_by_segment"}
        /\ \A r \in Req : r > 2 => f[r] = NotSent}

Init == Start(GateRuns)

\* a dashboard request and a metric request, followed to a later time
LongRuns ==
    {f \in [Req -> Routes \cup {NotSent}] :
        /\ f[1] = "dashboard"
        /\ f[2] = "kpis"
        /\ \A r \in Req : r > 2 => f[r] = NotSent}

InitDash == Start(DashRuns)

InitLong == Start(LongRuns)

Spec == Init /\ [][Next]_vars

SpecDash == InitDash /\ [][Next]_vars

SpecLong == InitLong /\ [][NextLong]_vars

\* ---------------------------------------------------------------- claims
\* where a thread is inside `with _gate`: connection open, execute, fetch,
\* and the exit of the block
Inside == {"exec", "fetch", "exit"}

InGate == {r \in Req : pc[r] \in Inside}

RECURSIVE SumHeld(_)
SumHeld(S) ==
    IF S = {} THEN 0
    ELSE LET r == CHOOSE x \in S : TRUE IN held[r] + SumHeld(S \ {r})

InFlight == {r \in Req : pc[r] \notin {"idle", "done"}}

\* C1: at any time at most TRINO_MAX_CONCURRENCY run_query calls are inside
\* the section the gate protects, however many requests are in flight
C1_GateBounded == Cardinality(InGate) <= TRINO_MAX_CONCURRENCY

\* C1 witness: more requests than slots are in flight, the gate is full
\* and a request waits in acquire()
C1_Saturated ==
    /\ Cardinality(InFlight) > TRINO_MAX_CONCURRENCY
    /\ Cardinality(InGate) = TRINO_MAX_CONCURRENCY
    /\ \E r \in Req : pc[r] = "gate"

\* C2: a call holds a slot exactly while it is inside the protected
\* section, the held slots and the free slots add up to the capacity, and
\* with no request in flight every slot is free
C2_SlotsBalanced ==
    /\ \A r \in Req : held[r] = IF r \in InGate THEN 1 ELSE 0
    /\ _gate + SumHeld(Req) = TRINO_MAX_CONCURRENCY
    /\ InFlight = {} => _gate = TRINO_MAX_CONCURRENCY

\* C2 witness: every request was answered, one after a query that was sent
\* and failed, one after the connection could not be opened, one normally
C2_AllExitsTaken ==
    /\ InFlight = {}
    /\ \E r \in Req : resp[r].status = 503 /\ sent[r]["health"] = 1
    /\ \E r \in Req : resp[r].status = 503 /\ sent[r]["health"] = 0
    /\ \E r \in Req : resp[r].status = 200 /\ resp[r].body = "json"

\* C3: whatever the route, a thread that is executing or fetching a query
\* holds a slot of the gate
C3_NoBackDoor ==
    \A r \in Req : pc[r] \in {"exec", "fetch"} => held[r] = 1

\* C3 witness: the dashboard and the health probe are both talking to the
\* query engine, each holding a slot
C3_RoutesInGate ==
    \E r, s \in Req :
        /\ route[r] = "dashboard" /\ pc[r] = "fetch" /\ idx[r] = 3
        /\ route[s] = "health" /\ pc[s] = "exec"
        /\ held[r] = 1 /\ held[s] = 1

\* request r takes a step
Stepped(r) == pc'[r] # pc[r] \/ idx'[r] # idx[r]

\* C4: a cache_ttl call that finds an entry younger than the ttl returns
\* the stored value, does not invoke the supplier and leaves the cache as
\* it is; for the metric keys and for the "dashboard" key
C4_HitReturnsStored ==
    [][\A r \in Req :
        /\ ( /\ pc[r] = "call" /\ Stepped(r)
             /\ Query(r) \in DOMAIN _cache
             /\ clock - _cache[Query(r)].t < SMALL_CACHE_TTL )
           => /\ calls'[r] = calls[r] /\ sent'[r] = sent[r]
              /\ _cache' = _cache
              /\ pc'[r] \in {"call", "dstore", "done"}
              /\ IF route[r] = "dashboard"
                 THEN acc'[r] = Append(acc[r], _cache[Query(r)].v[1])
                 ELSE resp'[r] = [status |-> 200, body |-> "json",
                                  data |-> _cache[Query(r)].v]
        /\ ( /\ pc[r] = "idle" /\ Stepped(r) /\ route[r] = "dashboard"
             /\ "dashboard" \in DOMAIN _cache
             /\ clock - _cache["dashboard"].t < DASHBOARD_CACHE_TTL )
           => /\ calls'[r] = calls[r] /\ sent'[r] = sent[r]
              /\ _cache' = _cache
              /\ pc'[r] = "done"
              /\ resp'[r] = [status |-> 200, body |-> "json",
                             data |-> _cache["dashboard"].v]
      ]_vars

\* C4 witness: /api/kpis was answered from the entry the dashboard had
\* stored, without a supplier call of its own, and so was a second
\* dashboard request in another run
C4_ServedFromCache ==
    \E r \in Req :
        /\ route[r] \in {"kpis", "dashboard"}
        /\ pc[r] = "done" /\ resp[r].body = "json"
        /\ calls[r][route[r]] = 0 /\ sent[r]["kpis"] = 0
        /\ resp[r].data = _cache[route[r]].v
        /\ clock = _cache[route[r]].t + TickLen

\* C5: a cache_ttl call that finds no entry, or one whose age is at least
\* the ttl, invokes the supplier, once; the value the supplier returns is
\* stored with the `now` of that call as time stamp, and returned
C5_MissComputesAndStores ==
    [][\A r \in Req :
        /\ ( /\ pc[r] = "call" /\ Stepped(r)
             /\ ~( /\ Query(r) \in DOMAIN _cache
                   /\ clock - _cache[Query(r)].t < SMALL_CACHE_TTL ) )
           => /\ calls'[r][Query(r)] = 1 /\ calls[r][Query(r)] = 0
              /\ mnow'[r] = clock
              /\ pc'[r] = "gate"
              /\ _cache' = _cache
        /\ pc'[r] \in {"exec", "fetch", "exit", "store"} => mnow'[r] = mnow[r]
        /\ (pc[r] = "store" /\ Stepped(r))
           => /\ _cache'[Query(r)] = [t |-> mnow[r], v |-> val[r]]
              /\ IF route[r] = "dashboard"
                 THEN acc'[r] = Append(acc[r], val[r][1])
                 ELSE resp'[r] = [status |-> 200, body |-> "json", data |-> val[r]]
        /\ ( /\ pc[r] = "idle" /\ Stepped(r) /\ route[r] = "dashboard"
             /\ ~( /\ "dashboard" \in DOMAIN _cache
                   /\ clock - _cache["dashboard"].t < DASHBOARD_CACHE_TTL ) )
           => /\ calls'[r]["dashboard"] = 1 /\ calls[r]["dashboard"] = 0
              /\ dnow'[r] = clock
              /\ pc'[r] = "call"
              /\ _cache' = _cache
        /\ pc[r] # "idle" => dnow'[r] = dnow[r]
        /\ (pc[r] = "dstore" /\ Stepped(r))
           => /\ _cache'["dashboard"] = [t |-> dnow[r], v |-> acc[r]]
              /\ resp'[r] = [status |-> 200, body |-> "json", data |-> acc[r]]
      ]_vars

\* C5 witness: the dashboard stored kpis at time 0; /api/kpis looked it up
\* when its age was exactly the ttl, called the supplier and stored the new
\* value with the time of that lookup
C5_ExpiredRecomputed ==
    \E r, d \in Req :
        /\ route[r] = "kpis" /\ route[d] = "dashboard"
        /\ dnow[d] = 0 /\ calls[d]["kpis"] = 1
        /\ resp[d].body = "json" /\ resp[d].data[1] = 0
        /\ pc[r] = "done" /\ calls[r]["kpis"] = 1 /\ resp[r].body = "json"
        /\ _cache["kpis"] = [t |-> SMALL_CACHE_TTL, v |-> resp[r].data]

\* C6: no response carries, for its key, query results that were read
\* downstream more than the ttl of that key before the response
C6_NoStaleValueReturned ==
    [][\A r \in Req :
        (pc[r] # "done" /\ pc'[r] = "done" /\ resp'[r].body = "json")
        => \A i \in 1..Len(resp'[r].data) :
              clock - resp'[r].data[i] <=
                 IF route[r] = "dashboard" THEN DASHBOARD_CACHE_TTL
                                           ELSE SMALL_CACHE_TTL
      ]_vars

\* the dashboard requests that were sent
DashReqs == {r \in Req : route[r] = "dashboard" /\ pc[r] # "idle"}

\* the five queries of the dashboard
PartSet == {DashParts[i] : i \in 1..Len(DashParts)}

\* no two dashboard requests ran at the same time
Successive ==
    \A r, s \in DashReqs : r # s => (r \in before[s] \/ s \in before[r])

\* request r computed the dashboard payload and stored it
Computed(r) ==
    pc[r] = "done" /\ calls[r]["dashboard"] = 1 /\ resp[r].body = "json"

\* C7 as claimed: among the dashboard requests of one ttl window, the
\* concurrent ones included, the supplier runs at most once and each of the
\* five queries is sent at most once
C7_OncePerWindow ==
    clock < DASHBOARD_CACHE_TTL =>
        /\ Cardinality({r \in DashReqs : calls[r]["dashboard"] > 0}) <= 1
        /\ \A q \in PartSet : Cardinality({r \in DashReqs : sent[r][q] > 0}) <= 1

\* C7 as amended: a dashboard request runs the supplier at most once and
\* sends each of the five queries at most once; and when dashboard requests
\* do not overlap, then after one of them computed and stored the payload,
\* those that begin less than the ttl after it began run no supplier and
\* send no query
C7_OncePerWindowSuccessive ==
    /\ \A r \in DashReqs :
          /\ calls[r]["dashboard"] <= 1
          /\ \A q \in PartSet : calls[r][q] <= 1 /\ sent[r][q] <= 1
    /\ Successive =>
          \A r, s \in DashReqs :
              ( /\ r \in before[s] /\ Computed(r)
                /\ dnow[s] - dnow[r] < DASHBOARD_CACHE_TTL )
              => /\ calls[s]["dashboard"] = 0
                 /\ \A q \in PartSet : calls[s][q] = 0 /\ sent[s][q] = 0

\* C7 witness: a dashboard request sent all five queries and stored the
\* payload; the next one, a tick later, sent none
C7_SecondSendsNothing ==
    \E r, s \in DashReqs :
        /\ r \in before[s] /\ Computed(r)
        /\ \A q \in PartSet : sent[r][q] = 1
        /\ dnow[s] = dnow[r] + TickLen
        /\ pc[s] = "done"
        /\ \A q \in PartSet : sent[s][q] = 0

\* C8 as claimed: two successive dashboard calls within the ttl window
\* answer the same and send each of the five queries at most once between
\* them, whether the first call succeeded or failed
C8_SuccessiveIdentical ==
    Successive =>
        \A r, s \in DashReqs :
            ( /\ r \in before[s] /\ pc[s] = "done"
              /\ dnow[s] - dnow[r] < DASHBOARD_CACHE_TTL )
            => /\ resp[s] = resp[r]
               /\ \A q \in PartSet : sent[r][q] + sent[s][q] <= 1

\* C8 as amended: the same, when the first call computed and stored the
\* payload
C8_SuccessiveIdenticalAfterSuccess ==
    Successive =>
        \A r, s \in DashReqs :
            ( /\ r \in before[s] /\ pc[s] = "done" /\ Computed(r)
              /\ dnow[s] - dnow[r] < DASHBOARD_CACHE_TTL )
            => /\ resp[s] = resp[r]
               /\ \A q \in PartSet : sent[r][q] + sent[s][q] <= 1

\* C8 witness: two successive dashboard calls got the same payload, whose
\* parts were read downstream at different times
C8_SamePayloadTwice ==
    \E r, s \in DashReqs :
        /\ r \in before[s] /\ Computed(r) /\ pc[s] = "done"
        /\ resp[s] = resp[r]
        /\ resp[r].data[1] # resp[r].data[5]

\* the payload of the except branch of each metric route (lines 240-293)
C9_Neutral(rt) ==
    CASE rt = "kpis" -> "{}"
      [] rt = "revenue_by_segment" -> "{\"labels\": [], \"values\": []}"
      [] rt = "revenue_share_by_segment" -> "{\"labels\": [], \"values\": []}"
      [] rt = "avg_order_value_by_segment" -> "{\"labels\": [], \"values\": []}"
      [] rt = "orders_count_by_segment" -> "{\"labels\": [], \"values\": []}"
      [] rt = "monthly_revenue_by_segment" -> "{\"labels\": [], \"datasets\": []}"
      [] rt = "top_customers" -> "{\"rows\": []}"

PartFails(r) ==
    /\ route[r] = "dashboard" /\ pc[r] = "exit" /\ Stepped(r)
    /\ (err[r] # "none" \/ (Query(r) = "kpis" /\ rows[r].n = 0))

C11_HealthProbe ==
    [][\A r \in Req : (route[r] = "health" /\ Stepped(r)) =>
        /\ _cache' = _cache
        /\ calls'[r] = calls[r] /\ calls[r] = Counters
        /\ pc[r] = "idle" => pc'[r] = "gate"
        /\ pc'[r] = "done" =>
              /\ pc[r] = "exit"
              /\ err[r] = "none" => sent[r]["health"] = 1
              /\ resp'[r] =
                    IF err[r] = "none"
                    THEN [status |-> 200, body |-> "{\"ok\": true}", data |-> <<>>]
                    ELSE [status |-> 503, body |-> "{\"ok\": false}", data |-> <<>>]
      ]_vars

\* C11 witness: with a fresh entry in the cache, one probe was sent and
\* answered 200, another was sent, failed and was answered 503
C11_ProbedBothWays ==
    /\ DOMAIN _cache # {}
    /\ \E r, s \in Req :
          /\ route[r] = "health" /\ route[s] = "health"
          /\ pc[r] = "done" /\ pc[s] = "done"
          /\ sent[r]["health"] = 1 /\ sent[s]["health"] = 1
          /\ resp[r] = [status |-> 200, body |-> "{\"ok\": true}", data |-> <<>>]
          /\ resp[s] = [status |-> 503, body |-> "{\"ok\": false}", data |-> <<>>]

\* a sane range for a row limit
SaneLimits == 1..1000

\* C12: the limit a /api/top_customers request puts into its LIMIT clause
\* and into its cache key lies in a bounded positive range, and so does the
\* limit of every top_customers key of the cache
C12_LimitClamped ==
    /\ \A r \in Req :
          (route[r] = "top_customers" /\ pc[r] \notin {"idle", "call"})
          => \E l \in SaneLimits : Query(r) = TopKey(l)
    /\ \A l \in Limits : TopKey(l) \in DOMAIN _cache => l \in SaneLimits

\* ------------------------------------------- monthly densification (_do)
\* ROUND(SUM(o.totalprice), 2), in cents
Revenues == {0, 5000}

\* str(r[0])[:7]: 'YYYY-MM', as yyyymm
MonthOf(m) == m \div 100

\* float(rev), and the 0.0 of the default series
Float(x) == [float |-> x]

\* GROUP BY 1, 2 ORDER BY 1, 2: the (month, segment) groups in the order of
\* the result, a month being its first day (date_trunc) as yyyymmdd
Groups ==
    <<<<20231201, "AUTOMOBILE">>, <<20231201, "BUILDING">>,
      <<20240101, "AUTOMOBILE">>, <<20240101, "BUILDING">>,
      <<20240201, "AUTOMOBILE">>, <<20240201, "BUILDING">>>>

\* the results the monthly query can have: at most MaxRows groups, each
\* once, in order, each with a revenue
MonthlyRows ==
    LET Picks == UNION {[1..n -> (1..Len(Groups)) \X Revenues] : n \in 0..MaxRows}
        Ordered(p) == \A i \in 1..(Len(p) - 1) : p[i][1] < p[i + 1][1]
    IN  {[i \in 1..Len(p) |-> <<Groups[p[i][1]][1], Groups[p[i][1]][2], p[i][2]>>] :
            p \in {q \in Picks : Ordered(q)}}

\* sorted(S) for a set of numbers
RECURSIVE Sorted(_)
Sorted(S) ==
    IF S = {} THEN <<>>
    ELSE LET lo == CHOOSE x \in S : \A y \in S : x <= y
         IN  <<lo>> \o Sorted(S \ {lo})

\* months = sorted({str(r[0])[:7] for r in rows})
Months(rws) == Sorted({MonthOf(rws[i][1]) : i \in 1..Len(rws)})

\* {m: 0.0 for m in months}
DefaultSeries(months) ==
    [m \in {months[j] : j \in 1..Len(months)} |-> Float(0)]

\* faulty variant: every segment shares one series, so a revenue written for one
\* segment shows in all of them
AssignShared(by, seg, key, v) ==
    [s \in DOMAIN by |-> [by[s] EXCEPT ![key] = v]]

\* by_seg[seg][key] = float(rev)
Assign(by, seg, key, v) == [by EXCEPT ![seg][key] = v]

\* the loop over rows: by_seg as [order, series], order being the keys of the
\* defaultdict in the order they were first used
RECURSIVE BySeg(_, _, _)
BySeg(rws, months, by) ==
    IF rws = <<>> THEN by
    ELSE LET seg == rws[1][2]
             known == seg \in DOMAIN by.series
             series == IF known THEN by.series
                       ELSE [s \in DOMAIN by.series \cup {seg} |->
                               IF s = seg THEN DefaultSeries(months)
                               ELSE by.series[s]]
         IN  BySeg(Tail(rws), months,
                   [order |-> IF known THEN by.order ELSE Append(by.order, seg),
                    series |-> Assign(series, seg, MonthOf(rws[1][1]),
                                      Float(rws[1][3]))])

\* the value compute_monthly_revenue_by_segment._do returns for rows rws
MonthlyShape(rws) ==
    LET months == Months(rws)
        by == BySeg(rws, months, [order |-> <<>>, series |-> << >>])
    IN  [labels |-> months,
         datasets |-> [i \in 1..Len(by.order) |->
                          [label |-> by.order[i],
                           data |-> [j \in 1..Len(months) |->
                                        by.series[by.order[i]][months[j]]]]]]

\* request 1 is in _do of the monthly metric with the rows fetchall returned
InitDense ==
    /\ clock = 0
    /\ _gate = TRINO_MAX_CONCURRENCY
    /\ _cache = << >>
    /\ held = [r \in Req |-> 0]
    /\ route = [r \in Req |->
                  IF r = 1 THEN "monthly_revenue_by_segment" ELSE NotSent]
    /\ limit = [r \in Req |-> DefaultLimit]
    /\ pc = [r \in Req |-> IF r = 1 THEN "shape" ELSE "idle"]
    /\ dnow = [r \in Req |-> 0]
    /\ mnow = [r \in Req |-> 0]
    /\ idx = [r \in Req |-> 0]
    /\ acc = [r \in Req |-> <<>>]
    /\ err = [r \in Req |-> "none"]
    /\ \E rws \in MonthlyRows :
          rows = [r \in Req |-> IF r = 1 THEN rws ELSE NoRows]
    /\ val = [r \in Req |-> <<>>]
    /\ resp = [r \in Req |-> NoResp]
    /\ calls = [r \in Req |-> Counters]
    /\ sent = [r \in Req |-> Counters]
    /\ before = [r \in Req |-> {}]

\* _do of the monthly metric shapes its rows: lines 185-191
Densify(r) ==
    /\ pc[r] = "shape"
    /\ val' = [val EXCEPT ![r] = MonthlyShape(rows[r])]
    /\ pc' = [pc EXCEPT ![r] = "shaped"]
    /\ UNCHANGED <<clock, _gate, _cache, held, route, limit, dnow, mnow, idx, acc,
                   err, rows, resp, calls, sent, before>>

NextDense == \E r \in Req : Densify(r)

SpecDense == InitDense /\ [][NextDense]_vars

\* the months and the segments of the rows request r shaped
RowMonths(r) == {rows[r][i][1] \div 100 : i \in 1..Len(rows[r])}

RowSegments(r) == {rows[r][i][2] : i \in 1..Len(rows[r])}

\* C13: the labels are the distinct months of the rows in ascending order,
\* there is exactly one dataset for each segment of the rows, each data has
\* the length of the labels, and data[j] is the revenue of the row for
\* (labels[j], segment) if there is one and 0.0 otherwise
C13_Densified ==
    \A r \in Req : pc[r] = "shaped" =>
        LET labels == val[r].labels
            datasets == val[r].datasets
        IN  /\ Len(labels) = Cardinality(RowMonths(r))
            /\ {labels[j] : j \in 1..Len(labels)} = RowMonths(r)
            /\ \A j \in 1..(Len(labels) - 1) : labels[j] < labels[j + 1]
            /\ Len(datasets) = Cardinality(RowSegments(r))
            /\ {datasets[i].label : i \in 1..Len(datasets)} = RowSegments(r)
            /\ \A i \in 1..Len(datasets) :
                  /\ Len(datasets[i].data) = Len(labels)
                  /\ \A j \in 1..Len(labels) :
                        LET hits == {k \in 1..Len(rows[r]) :
                                        /\ rows[r][k][1] \div 100 = labels[j]
                                        /\ rows[r][k][2] = datasets[i].label}
                        IN  IF hits = {}
                            THEN datasets[i].data[j] = [float |-> 0]
                            ELSE \A k \in hits :
                                    datasets[i].data[j] = [float |-> rows[r][k][3]]

\* C13 witness: the rows of the example, a segment in December and the
\* other in January, were shaped into two series with one gap each
C13_GapsFilled ==
    /\ pc[1] = "shaped"
    /\ rows[1] = <<<<20231201, "AUTOMOBILE", 5000>>, <<20240101, "BUILDING", 5000>>>>
    /\ val[1] = [labels |-> <<202312, 202401>>,
                 datasets |-> <<[label |-> "AUTOMOBILE",
                                 data |-> <<[float |-> 5000], [float |-> 0]>>],
                                [label |-> "BUILDING",
                                 data |-> <<[float |-> 0], [float |-> 5000]>>]>>]

\* ------------------------------------------------------- requests go on
\* the client of an answered request sends it again: the server goes on
\* serving, the worker starts the handler afresh
Again(r) ==
    /\ pc[r] = "done"
    /\ pc' = [pc EXCEPT ![r] = "idle"]
    /\ resp' = [resp EXCEPT ![r] = NoResp]
    /\ calls' = [calls EXCEPT ![r] = Counters]
    /\ sent' = [sent EXCEPT ![r] = Counters]
    /\ dnow' = [dnow EXCEPT ![r] = 0]
    /\ before' = [before EXCEPT ![r] = {}]
    /\ UNCHANGED <<clock, _gate, _cache, held, route, limit, mnow, idx, acc, err,
                   rows, val>>

NextLive == Step \/ Tick \/ \E r \in Req : Again(r)

\* the steps of the thread of a request once the request is in
ThreadStep(r) ==
    \/ CacheTtl(r) \/ Acquire(r) \/ Execute(r) \/ Fetch(r)
    \/ Release(r) \/ Store(r) \/ DStore(r)

\* a thread that can run is scheduled in the end, and a downstream call
\* returns or fails in the end; the semaphore promises no order among the
\* threads that want a slot, and requests need not arrive
Fairness == \A r \in Req : WF_vars(ThreadStep(r))

\* a dashboard request among health probes
LiveRuns ==
    {f \in [Req -> Routes] :
        /\ f[1] = "dashboard"
        /\ \A r \in Req : r > 1 => f[r] = "health"}

InitLive == Start(LiveRuns)

SpecLive == InitLive /\ [][NextLive]_vars /\ Fairness

\* C14: a request that waits in acquire() is admitted in the end, whatever
\* other requests keep arriving
C14_WaiterAdmitted ==
    \A r \in Req : (pc[r] = "gate") ~> (pc[r] \in Inside)

\* C15: the cache is a map with one [t, v] entry per key; a step that
\* creates or changes the entry of a key is the store of one cache_ttl call
\* and leaves the key with the time stamp and the value of that call, both
\* at once, so that the next reader finds the old pair or the new pair; and
\* no step removes an entry
C15_EntriesWhole ==
    [][/\ DOMAIN _cache \subseteq DOMAIN _cache'
       /\ DOMAIN _cache' \subseteq Keys
       /\ \A k \in DOMAIN _cache' :
             /\ DOMAIN _cache'[k] = {"t", "v"}
             /\ (k \notin DOMAIN _cache \/ _cache'[k] # _cache[k]) =>
                   \E r \in Req :
                      \/ /\ pc[r] = "store" /\ Query(r) = k /\ Stepped(r)
                         /\ _cache'[k] = [t |-> mnow[r], v |-> val[r]]
                      \/ /\ pc[r] = "dstore" /\ k = "dashboard" /\ Stepped(r)
                         /\ _cache'[k] = [t |-> dnow[r], v |-> acc[r]]
      ]_vars

\* C15 witness: the kpis entry the dashboard created at time 0 was replaced
\* at the end of its ttl by the entry of a /api/kpis request, time stamp and
\* value together, while the dashboard entry stayed
C15_Replaced ==
    \E r \in Req :
        /\ route[r] = "kpis" /\ pc[r] = "done" /\ calls[r]["kpis"] = 1
        /\ "dashboard" \in DOMAIN _cache
        /\ _cache["dashboard"].t = 0 /\ _cache["dashboard"].v[1] = 0
        /\ _cache["kpis"].t = SMALL_CACHE_TTL
        /\ _cache["kpis"].v = <<SMALL_CACHE_TTL>>

\* the key of the get-or-compute a request makes for its route
OwnKey(r) ==
    IF route[r] = "dashboard" THEN "dashboard"
    ELSE MetricKey(route[r], limit[r])

\* the entries of the keys in K are the same before and after the step
Untouched(K) ==
    \A k \in K :
        /\ k \in DOMAIN _cache <=> k \in DOMAIN _cache'
        /\ k \in DOMAIN _cache => _cache'[k] = _cache[k]

\* C16 as claimed: no step of the get-or-compute of a request, metric or
\* dashboard, creates or changes the entry of a key other than its own
C16_OnlyOwnKey ==
    [][\A r \in Req : (route[r] # "health" /\ Stepped(r)) =>
          Untouched(Keys \ {OwnKey(r)})
      ]_vars

\* C16 as amended: a metric request creates or changes no entry but that of
\* its key, and what it does depends on that entry alone: a fresh one is
\* its answer, otherwise it runs its own query and answers with the result;
\* a dashboard request creates or changes no entry but those of
\* "dashboard" and of its five parts
C16_OnlyOwnKeyOrParts ==
    [][\A r \in Req : (route[r] # "health" /\ Stepped(r)) =>
          IF route[r] = "dashboard"
          THEN Untouched(Keys \ ({"dashboard"} \cup PartSet))
          ELSE /\ Untouched(Keys \ {OwnKey(r)})
               /\ pc[r] = "call" =>
                     IF /\ OwnKey(r) \in DOMAIN _cache
                        /\ clock - _cache[OwnKey(r)].t < SMALL_CACHE_TTL
                     THEN resp'[r] = [status |-> 200, body |-> "json",
                                      data |-> _cache[OwnKey(r)].v]
                     ELSE pc'[r] = "gate" /\ resp'[r] = resp[r]
               /\ pc[r] = "store" =>
                     resp'[r] = [status |-> 200, body |-> "json", data |-> val[r]]
      ]_vars

\* C16 witness: /api/revenue_share_by_segment found no entry for its key,
\* ran its query and stored the result, next to the kpis entry of the
\* dashboard, which stayed as it was
C16_StoredBeside ==
    \E r, d \in Req :
        /\ route[r] = "revenue_share_by_segment" /\ route[d] = "dashboard"
        /\ pc[r] = "done" /\ calls[r]["revenue_by_segment"] = 1
        /\ resp[r].data = <<TickLen>>
        /\ calls[d]["kpis"] = 1
        /\ "kpis" \in DOMAIN _cache /\ _cache["kpis"] = [t |-> 0, v |-> <<0>>]
        /\ _cache["revenue_by_segment"] = [t |-> TickLen, v |-> <<TickLen>>]

\* C17: the time stamp of the entry of a key never decreases: no store
\* replaces an entry by one with an older time stamp, whatever the
\* interleaving of the calls that race on the key
C17_StampNeverDecreases ==
    [][\A k \in DOMAIN _cache :
          k \in DOMAIN _cache' /\ _cache'[k].t >= _cache[k].t
      ]_vars

\* the supplier of the call request r is in raises in this step: its query
\* raised, or _do could not shape the rows
SupplierRaises(r) ==
    /\ route[r] # "health" /\ pc[r] = "exit" /\ Stepped(r)
    /\ (err[r] # "none" \/ (Query(r) = "kpis" /\ rows[r].n = 0))

\* request r answered from the except branch of /api/dashboard
DashFailed(r) ==
    route[r] = "dashboard" /\ pc[r] = "done" /\ resp[r].body = "{\"error\": \"trino_busy\"}"

\* C18: a cache_ttl call touches the entry of its key only in its store;
\* when its supplier raises, the call ends there with the neutral answer of
\* the route and the cache as it was, so no failure and no neutral payload
\* is ever stored; and a dashboard request that begins when all earlier
\* ones have failed invokes the supplier again
C18_FailureLeavesEntry ==
    [][/\ \A r \in Req : (route[r] # "health" /\ Stepped(r)) =>
             /\ pc[r] # "dstore" /\ route[r] = "dashboard"
                   => Untouched({"dashboard"})
             /\ pc[r] \in {"call", "gate", "exec", "fetch", "exit"}
                   => Untouched({Query(r)})
             /\ SupplierRaises(r) =>
                   /\ _cache' = _cache
                   /\ pc'[r] = "done"
                   /\ resp'[r].status = 200 /\ resp'[r].data = <<>>
                   /\ calls'[r] = calls[r] /\ calls[r][OwnKey(r)] = 1
       /\ \A k \in DOMAIN _cache' : _cache'[k].v # <<>>
       /\ \A s \in Req :
             ( /\ route[s] = "dashboard" /\ pc[s] # "idle" /\ pc'[s] # "idle"
               /\ before'[s] # {}
               /\ \A r \in Req \ {s} :
                     route[r] = "dashboard" => (r \in before'[s] /\ DashFailed(r)) )
             => calls'[s]["dashboard"] = 1
      ]_vars

\* C18 witness: the kpis entry the dashboard stored at time 0 had expired
\* when /api/kpis came; its query failed, the route answered {} and the
\* entry is the old one still
C18_ExpiredEntryKept ==
    \E r \in Req :
        /\ route[r] = "kpis" /\ pc[r] = "done"
        /\ calls[r]["kpis"] = 1 /\ sent[r]["kpis"] = 1
        /\ resp[r] = [status |-> 200, body |-> "{}", data |-> <<>>]
        /\ clock = SMALL_CACHE_TTL
        /\ "kpis" \in DOMAIN _cache
        /\ _cache["kpis"] = [t |-> 0, v |-> <<0>>]

\* ------------------------------------------------- smaller capacities
\* the process started with TRINO_MAX_CONCURRENCY set to 1 or left at its
\* default, and serves a dashboard request among health probes
InitSlots == \E n \in 1..TRINO_MAX_CONCURRENCY : StartWith(LiveRuns, n)

SpecSlots == InitSlots /\ [][Next]_vars

\* C19: a request holds at most one slot, and none while it waits in
\* acquire(), also between the five queries of the dashboard; so whenever
\* every request in flight waits in acquire(), a slot is free
C19_NoWaitHoldingSlot ==
    /\ \A r \in Req : held[r] <= 1 /\ (pc[r] = "gate" => held[r] = 0)
    /\ (InFlight # {} /\ \A r \in InFlight : pc[r] = "gate") => _gate > 0

\* C19 witness: with a single slot, the probes wait in acquire() for the
\* slot the dashboard holds for its fourth query; the dashboard held none
\* when it asked for it
C19_OneSlotShared ==
    /\ _gate + SumHeld(Req) = 1
    /\ \E d \in Req :
          /\ route[d] = "dashboard" /\ idx[d] = 4 /\ pc[d] = "fetch" /\ held[d] = 1
          /\ \A r \in Req \ {d} : pc[r] = "gate" /\ held[r] = 0

====
